---- MODULE Spec2Model ----
(***************************************************************************)
(* Saturday shift scheduler (src/app.py, src/models.py).                   *)
(*                                                                         *)
(* The store is the four tables of models.py.  A date is the number of     *)
(* days since January 1 of the year being scheduled (day 0).  Schedule     *)
(* rows carry a synthetic id that no handler reads, so the table is a bag  *)
(* of (date, dept, emp, override) records.  Departments are named by       *)
(* their unique name, employees by their id.                               *)
(***************************************************************************)
EXTENDS Integers, Sequences, FiniteSets, Bags, TLC

VARIABLES departments, employees, nextEmpId, holidays, schedule, today, jan1wd,
          edits, last

vars == <<departments, employees, nextEmpId, holidays, schedule, today, jan1wd,
          edits, last>>

(***************************************************************************)
(* Bounds of the model.                                                    *)
(***************************************************************************)
\* number of days of the modelled year (December 31 is day YearDays - 1)
YearDays == 15
\* number of manual edits: employees added, holidays recorded, rows imported,
\* swaps made
MaxEdits == 2

(***************************************************************************)
(* Constants of app.py.                                                    *)
(***************************************************************************)
DEPT_CSR == "CSR"
DEPT_AUTO == "Auto"
DEPT_SHOP == "Shop"
DEPT_DAL == "DAL"
DEPT_CAR == "CAR"
DEPT_COLDEN == "COL/DEN"
DEPT_SPEC_OPS == "Spec Ops"

\* Python's date.weekday() of a Saturday
SATURDAY == 5

\* import_schedule: departments that may hold several rows per date
multi_allowed == {DEPT_SPEC_OPS, DEPT_CAR, DEPT_COLDEN}

\* Employee.group_num is NULL
NoGroup == 0

(***************************************************************************)
(* Calendar helpers.                                                       *)
(***************************************************************************)
\* date.weekday(): Monday = 0 .. Sunday = 6
Weekday(d) == (jan1wd + d) % 7

\* variant: a reference date that is a Saturday is moved to the next one
coming_saturday_after(from_day) == from_day + 1 + ((SATURDAY - Weekday(from_day + 1)) % 7)

coming_saturday(from_day) == from_day + ((SATURDAY - Weekday(from_day)) % 7)

last_saturday_of_year ==
  LET last_day == YearDays - 1
  IN  last_day - ((Weekday(last_day) - SATURDAY) % 7)

RECURSIVE saturdays_between(_, _)
saturdays_between(start, end) ==
  IF start > end THEN <<>> ELSE <<start>> \o saturdays_between(start + 7, end)

\* list.index(x), zero-based; -1 stands for the ValueError of an absent element
RECURSIVE IndexFrom(_, _, _)
IndexFrom(seq, x, i) ==
  IF i > Len(seq) THEN -1
  ELSE IF seq[i] = x THEN i - 1 ELSE IndexFrom(seq, x, i + 1)

IndexOf(seq, x) == IndexFrom(seq, x, 1)

Range(seq) == {seq[i] : i \in DOMAIN seq}

\* the dates requests name: the Saturdays of the modelled year
Saturdays == {d \in 0..(YearDays - 1) : Weekday(d) = SATURDAY}

(***************************************************************************)
(* Rows and bags of rows.                                                  *)
(***************************************************************************)
Names == {"Ann", "Bob", "Corey", "Edwin", "Tommy"}

\* the absent employee (None)
NoEmp == [id |-> 0, name |-> "", dept |-> "", group |-> NoGroup]

Row(d, dn, eid, ov) == [date |-> d, dept |-> dn, emp |-> eid, override |-> ov]

Rows == BagToSet(schedule)

\* the rows of bag B that satisfy none of the row set D (DELETE ... WHERE row in D)
DeleteRows(B, D) == [r \in (DOMAIN B) \ D |-> B[r]]

\* number of stored rows among the row set D
CountRows(B, D) == BagCardinality([r \in (DOMAIN B) \cap D |-> B[r]])

EmployeeById(eid) == CHOOSE e \in employees : e.id = eid

\* name.strip().lower().startswith("corey")
IsCorey(name) == name = "Corey"
\* name.strip() == "Edwin"
IsEdwin(name) == name = "Edwin"
\* name.lower().startswith("tommy")
IsTommy(name) == name = "Tommy"

(***************************************************************************)
(* generate_schedule: rotation registry.                                   *)
(***************************************************************************)
\* Department.employees
DeptEmployees(dn) == {e \in employees : e.dept = dn}

\* sorted(..., key=lambda e: e.id)
RECURSIVE SortById(_)
SortById(S) ==
  IF S = {} THEN <<>>
  ELSE LET m == CHOOSE e \in S : \A f \in S : e.id <= f.id
       IN  <<m>> \o SortById(S \ {m})

dept_employees(dn) == SortById(DeptEmployees(dn))

\* first CAR employee whose name starts with "corey" (rows load in id order)
corey_emp ==
  LET cs == {e \in DeptEmployees(DEPT_CAR) : IsCorey(e.name)}
  IN  IF DEPT_CAR \in departments /\ cs # {} THEN Head(SortById(cs)) ELSE NoEmp

\* variant: the fixed member stays in the CAR rotation
rot_with_fixed_member(dn) == dept_employees(dn)

rot(dn) ==
  IF dn = DEPT_CAR
  THEN SortById({e \in DeptEmployees(DEPT_CAR) :
                   corey_emp # NoEmp /\ e.id # corey_emp.id})
  ELSE dept_employees(dn)

spec_ops_groups(g) ==
  SortById({e \in DeptEmployees(DEPT_SPEC_OPS) :
              DEPT_SPEC_OPS \in departments /\ e.group = g})

\* deque.rotate(-1)
Rotate(q) == IF q = <<>> THEN q ELSE Tail(q) \o <<Head(q)>>

\* variant: the head is returned but not moved to the tail
next_without_rotate(q) ==
  IF q = <<>> THEN [x |-> NoEmp, q |-> q] ELSE [x |-> Head(q), q |-> q]

next_from_deque(q) ==
  IF q = <<>> THEN [x |-> NoEmp, q |-> q] ELSE [x |-> Head(q), q |-> Rotate(q)]

(***************************************************************************)
(* generate_schedule: target dates and detection of what needs repair.     *)
(***************************************************************************)
\* variant: holidays are not removed from the target dates
TargetSaturdaysWithHolidays(coming_sat, end) == saturdays_between(coming_sat, end)

\* variant: the target dates start a week before the coming Saturday
TargetSaturdaysFromLastWeek(coming_sat, end) ==
  SelectSeq(saturdays_between(coming_sat - 7, end),
            LAMBDA d : d \notin holidays /\ d >= 0)

\* all_sats: the Saturdays from the coming one to the year's last, holidays removed
TargetSaturdays(coming_sat, end) ==
  SelectSeq(saturdays_between(coming_sat, end), LAMBDA d : d \notin holidays)

\* the department's rows dated on or after the coming Saturday
FutureRows(dn, coming_sat) ==
  {r \in Rows : r.dept = dn /\ r.date >= coming_sat}

missing_dates(dn, all_sats, coming_sat) ==
  SelectSeq(all_sats, LAMBDA sat : ~ \E r \in FutureRows(dn, coming_sat) : r.date = sat)

unscheduled_emps(dn, coming_sat) ==
  {e.id : e \in DeptEmployees(dn)} \ {r.emp : r \in FutureRows(dn, coming_sat)}

missing_by_dept(all_sats, coming_sat) ==
  [dn \in {n \in departments :
             \/ missing_dates(n, all_sats, coming_sat) # <<>>
             \/ unscheduled_emps(n, coming_sat) # {}}
     |-> IF missing_dates(dn, all_sats, coming_sat) # <<>>
         THEN missing_dates(dn, all_sats, coming_sat)
         ELSE all_sats]

(***************************************************************************)
(* generate_schedule: fairness alignment.                                  *)
(***************************************************************************)
RECURSIVE RotateTo(_, _)
RotateTo(q, eid) == IF Head(q).id = eid THEN q ELSE RotateTo(Rotate(q), eid)

\* variant: the rotation always restarts at the lowest id
AlignNever(dn, q, coming_sat) == q

Align(dn, q, coming_sat) ==
  LET past == {r \in Rows : r.dept = dn /\ r.date < coming_sat}
  IN  IF past = {} THEN q
      ELSE LET last_date == CHOOSE d \in {r.date : r \in past} :
                              \A r \in past : r.date <= d
               last_emp_rows == {r \in past : r.date = last_date}
           IN  IF CountRows(schedule, last_emp_rows) = 1 /\ q # <<>>
               THEN LET last_emp_id == (CHOOSE r \in last_emp_rows : TRUE).emp
                    IN  IF \E i \in DOMAIN q : q[i].id = last_emp_id
                        THEN Rotate(RotateTo(q, last_emp_id))
                        ELSE q
               ELSE q

(***************************************************************************)
(* generate_schedule: the department rules for one target date.            *)
(***************************************************************************)
\* variant: the week index is taken among the holiday-filtered Saturdays
all_year_sats_without_holidays ==
  SelectSeq(saturdays_between(0, last_saturday_of_year), LAMBDA d : d \notin holidays)

\* list(saturdays_between(date(year, 1, 1), end))
all_year_sats == saturdays_between(0, last_saturday_of_year)

\* all_year_sats.index(sat): the absolute index in the year, -1 for ValueError
week_index(sat) == IndexOf(all_year_sats, sat)

NewRow(sat, dn, e) == Row(sat, dn, e.id, FALSE)

\* Auto: 1 on, 1 off
AutoRule(sat) ==
  LET emps == dept_employees(DEPT_AUTO)
      wi == week_index(sat)
      cycle_len == 2
      cycle_pos == wi % cycle_len
      on_index == (wi \div cycle_len) % Len(emps)
  IN  IF emps = <<>> \/ wi < 0 THEN {}
      ELSE IF cycle_pos = 0 THEN {NewRow(sat, DEPT_AUTO, emps[on_index + 1])}
      ELSE {}

\* DAL: 2 on, 2 off
DalRule(sat) ==
  LET emps == dept_employees(DEPT_DAL)
      wi == week_index(sat)
      cycle_len == 4
      cycle_pos == wi % cycle_len
      emp_index == cycle_pos % Len(emps)
  IN  IF emps = <<>> \/ wi < 0 THEN {}
      ELSE IF cycle_pos \in {0, 1} THEN {NewRow(sat, DEPT_DAL, emps[emp_index + 1])}
      ELSE {}

\* COL/DEN: 3 on, 1 off
ColdenRule(sat) ==
  LET emps == dept_employees(DEPT_COLDEN)
      wi == week_index(sat)
      cycle_len == 4
      cycle_pos == wi % cycle_len
      emp_index == cycle_pos % Len(emps)
  IN  IF emps = <<>> \/ wi < 0 THEN {}
      ELSE IF cycle_pos \in {0, 1, 2} THEN {NewRow(sat, DEPT_COLDEN, emps[emp_index + 1])}
      ELSE {}

\* Spec Ops: the whole group of the week; idx is the position in target_dates
group_for_week(idx) == LET week_num == idx + 1 IN ((week_num - 1) % 4) + 1

SpecOpsRule(sat, idx) ==
  {NewRow(sat, DEPT_SPEC_OPS, e) : e \in Range(spec_ops_groups(group_for_week(idx)))}

\* CAR: Corey always works, plus one drawn from the rotation
CarRule(sat, cand) ==
  LET used == IF corey_emp # NoEmp THEN {corey_emp.id} ELSE {}
  IN  (IF corey_emp # NoEmp THEN {NewRow(sat, DEPT_CAR, corey_emp)} ELSE {})
      \cup (IF cand # NoEmp /\ cand.id \notin used
            THEN {NewRow(sat, DEPT_CAR, cand)} ELSE {})

\* Shop: normal rotation, and Tommy when Edwin works
ShopRule(sat, emp) ==
  LET emps == dept_employees(DEPT_SHOP)
      ed == SelectSeq(emps, LAMBDA e : IsEdwin(e.name))
      tm == SelectSeq(emps, LAMBDA e : IsTommy(e.name))
  IN  IF emp = NoEmp THEN {}
      ELSE {NewRow(sat, DEPT_SHOP, emp)}
           \cup (IF ed # <<>> /\ tm # <<>> /\ IsEdwin(emp.name)
                 THEN {NewRow(sat, DEPT_SHOP, Head(tm))} ELSE {})

\* default rotation
DefaultRule(sat, dn, emp) == IF emp = NoEmp THEN {} ELSE {NewRow(sat, dn, emp)}

\* one pass of the loop body "for idx, sat in enumerate(target_dates)":
\* the rows added for sat and the rotation left for the next date
DeptRule(dn, sat, idx, q) ==
  IF dn = DEPT_SPEC_OPS THEN [rows |-> SpecOpsRule(sat, idx), q |-> q]
  ELSE IF dn = DEPT_CAR
    THEN LET d == next_from_deque(q) IN [rows |-> CarRule(sat, d.x), q |-> d.q]
  ELSE IF dn = DEPT_AUTO THEN [rows |-> AutoRule(sat), q |-> q]
  ELSE IF dn = DEPT_DAL THEN [rows |-> DalRule(sat), q |-> q]
  ELSE IF dn = DEPT_COLDEN THEN [rows |-> ColdenRule(sat), q |-> q]
  ELSE LET d1 == next_from_deque(q)
           d  == IF d1.x = NoEmp THEN next_from_deque(dept_employees(dn)) ELSE d1
       IN  IF dn = DEPT_SHOP
           THEN [rows |-> ShopRule(sat, d.x), q |-> d.q]
           ELSE [rows |-> DefaultRule(sat, dn, d.x), q |-> d.q]

RECURSIVE FillDates(_, _, _, _)
FillDates(dn, target_dates, i, q) ==
  IF i > Len(target_dates) THEN {}
  ELSE LET res == DeptRule(dn, target_dates[i], i - 1, q)
       IN  res.rows \cup FillDates(dn, target_dates, i + 1, res.q)

\* the rows one department's pass of the main loop adds
DeptInserts(dn, target_dates, coming_sat) ==
  FillDates(dn, target_dates, 1, Align(dn, rot(dn), coming_sat))

\* variant: the clean-up does not filter on the override flag
DeptDeletesAnyFlag(dn, target_dates) ==
  {r \in Rows : r.dept = dn /\ r.date \in Range(target_dates)}

\* "clean only these dates": the rows one department's pass deletes
DeptDeletes(dn, target_dates) ==
  {r \in Rows : r.dept = dn /\ r.date \in Range(target_dates) /\ r.override = FALSE}

\* all_year_sats.index(sat) raises ValueError in the department's pass
RaisesValueError(dn, target_dates) ==
  /\ dn \in {DEPT_AUTO, DEPT_DAL, DEPT_COLDEN}
  /\ DeptEmployees(dn) # {}
  /\ \E i \in DOMAIN target_dates : week_index(target_dates[i]) < 0

(***************************************************************************)
(* The result of the last request, as the handler reports it.              *)
(***************************************************************************)
NoDetails == [dn \in {} |-> <<>>]

Done(op, outcome) ==
  [op |-> op, outcome |-> outcome, details |-> NoDetails, deleted |-> 0, inserted |-> 0]

(***************************************************************************)
(* POST /schedule/generate                                                 *)
(***************************************************************************)
\* variant: the deletes and inserts made before the failure stay in the table
PartiallyApplied(dels, ins) == DeleteRows(schedule, dels) (+) SetToBag(ins)

\* the table after a request that raises before db.session.commit(): the
\* session's pending deletes and inserts are discarded with the session
RolledBack(dels, ins) == schedule

generate_schedule ==
  LET coming_sat == coming_saturday(today)
      end == last_saturday_of_year
      all_sats == TargetSaturdays(coming_sat, end)
      mbd == missing_by_dept(all_sats, coming_sat)
      dels == UNION {DeptDeletes(dn, mbd[dn]) : dn \in DOMAIN mbd}
      ins == UNION {DeptInserts(dn, mbd[dn], coming_sat) : dn \in DOMAIN mbd}
  IN  /\ UNCHANGED <<departments, employees, nextEmpId, holidays, today, jan1wd, edits>>
      /\ IF coming_sat > end
         THEN /\ last' = Done("generate", "none_remaining")
              /\ UNCHANGED schedule
         ELSE IF DOMAIN mbd = {}
         THEN /\ last' = Done("generate", "complete")
              /\ UNCHANGED schedule
         ELSE IF \E dn \in DOMAIN mbd : RaisesValueError(dn, mbd[dn])
         THEN \* the request fails and the session is rolled back
              /\ last' = Done("generate", "error")
              /\ schedule' = RolledBack(dels, ins)
         ELSE /\ schedule' = DeleteRows(schedule, dels) (+) SetToBag(ins)
              /\ last' = [op |-> "generate", outcome |-> "regenerated", details |-> mbd,
                          deleted |-> CountRows(schedule, dels),
                          inserted |-> Cardinality(ins)]

(***************************************************************************)
(* POST /employees and /employees/add_by_name                              *)
(***************************************************************************)
add_employee(name, dn, group_num) ==
  /\ edits < MaxEdits
  /\ dn \in departments
  /\ LET g == IF dn = DEPT_SPEC_OPS THEN group_num ELSE NoGroup
     IN  employees' = employees \cup
           {[id |-> nextEmpId, name |-> name, dept |-> dn, group |-> g]}
  /\ nextEmpId' = nextEmpId + 1
  /\ edits' = edits + 1
  /\ last' = Done("add_employee", "ok")
  /\ UNCHANGED <<departments, holidays, schedule, today, jan1wd>>

(***************************************************************************)
(* POST /employees/remove_by_name                                          *)
(***************************************************************************)
\* variant: the employee's override rows are kept
EmployeeRowsNotOverride(eid) == {r \in Rows : r.emp = eid /\ ~ r.override}

\* Schedule.query.filter_by(employee_id=emp.id).delete()
EmployeeRows(eid) == {r \in Rows : r.emp = eid}

remove_employee_by_name(name) ==
  /\ UNCHANGED <<departments, nextEmpId, holidays, today, jan1wd, edits>>
  /\ \/ /\ ~ \E e \in employees : e.name = name
        /\ last' = Done("remove_employee", "not_found")
        /\ UNCHANGED <<employees, schedule>>
     \/ \E emp \in employees :
          /\ emp.name = name
          /\ schedule' = DeleteRows(schedule, EmployeeRows(emp.id))
          /\ employees' = employees \ {emp}
          /\ last' = [Done("remove_employee", "ok") EXCEPT
                        !.details = [k \in {"rows"} |-> EmployeeRows(emp.id)],
                        !.deleted = CountRows(schedule, EmployeeRows(emp.id))]

(***************************************************************************)
(* POST /holidays                                                          *)
(***************************************************************************)
\* Schedule.query.filter(Schedule.date == hdate).delete()
DateRows(d) == {r \in Rows : r.date = d}

add_holiday(hdate) ==
  /\ edits < MaxEdits
  /\ edits' = edits + 1
  /\ holidays' = holidays \cup {hdate}
  /\ schedule' = DeleteRows(schedule, DateRows(hdate))
  /\ last' = [Done("add_holiday", "ok") EXCEPT
                !.details = [k \in {"date"} |-> hdate]]
  /\ UNCHANGED <<departments, employees, nextEmpId, today, jan1wd>>

(***************************************************************************)
(* DELETE /schedule                                                        *)
(***************************************************************************)
\* {"all": true}; {"year": y} covers the same rows, every date being of the year
delete_schedule_all ==
  /\ schedule' = EmptyBag
  /\ last' = Done("delete_schedule", "ok")
  /\ UNCHANGED <<departments, employees, nextEmpId, holidays, today, jan1wd, edits>>

\* {"date": d}
delete_schedule_date(d) ==
  /\ schedule' = DeleteRows(schedule, DateRows(d))
  /\ last' = Done("delete_schedule", "ok")
  /\ UNCHANGED <<departments, employees, nextEmpId, holidays, today, jan1wd, edits>>

(***************************************************************************)
(* POST /schedule/import, one CSV row per file                             *)
(***************************************************************************)
import_schedule(d, dept_name, emp_name) ==
  /\ UNCHANGED <<departments, employees, nextEmpId, holidays, today, jan1wd>>
  /\ \/ /\ \/ dept_name \notin departments
           \/ ~ \E e \in DeptEmployees(dept_name) : e.name = emp_name
        /\ last' = Done("import", "skipped")
        /\ UNCHANGED <<schedule, edits>>
     \/ \E emp \in DeptEmployees(dept_name) :
          /\ dept_name \in departments
          /\ emp.name = emp_name
          /\ IF dept_name \notin multi_allowed
             THEN LET old == {r \in Rows : r.date = d /\ r.dept = dept_name
                                            /\ r.override = FALSE}
                  IN  /\ edits < MaxEdits
                      /\ edits' = edits + 1
                      /\ schedule' = DeleteRows(schedule, old)
                                       (+) SetToBag({Row(d, dept_name, emp.id, FALSE)})
                      /\ last' = Done("import", "ok")
             ELSE IF \E r \in Rows : r.date = d /\ r.dept = dept_name /\ r.emp = emp.id
             THEN /\ last' = Done("import", "exists")
                  /\ UNCHANGED <<schedule, edits>>
             ELSE /\ edits < MaxEdits
                  /\ edits' = edits + 1
                  /\ schedule' = schedule (+) SetToBag({Row(d, dept_name, emp.id, FALSE)})
                  /\ last' = Done("import", "ok")

(***************************************************************************)
(* POST /swap                                                              *)
(***************************************************************************)
\* variant: only the first located row is marked as an override
SwappedFirstMarked(sched1, sched2) ==
  <<[sched1 EXCEPT !.emp = sched2.emp, !.override = TRUE],
    [sched2 EXCEPT !.emp = sched1.emp]>>

\* the two located rows after "swap employee assignments"
Swapped(sched1, sched2) ==
  <<[sched1 EXCEPT !.emp = sched2.emp, !.override = TRUE],
    [sched2 EXCEPT !.emp = sched1.emp, !.override = TRUE]>>

swap_shift(orig_date, new_date) ==
  /\ UNCHANGED <<departments, employees, nextEmpId, holidays, today, jan1wd>>
  /\ \/ \* no row on one of the dates, or no name close enough to the request's
        /\ last' = Done("swap", "not_found")
        /\ UNCHANGED <<schedule, edits>>
     \/ \E sched1 \in DateRows(orig_date), sched2 \in DateRows(new_date) :
          \* the fuzzy match resolved to these rows' employees
          \/ \* two rows of the table
             /\ sched1 # sched2 \/ CopiesIn(sched1, schedule) >= 2
             /\ LET sw == Swapped(sched1, sched2)
                    out == ((schedule (-) SetToBag({sched1})) (-) SetToBag({sched2}))
                             (+) SetToBag({sw[1]}) (+) SetToBag({sw[2]})
                IN  /\ edits < MaxEdits
                    /\ edits' = edits + 1
                    /\ schedule' = out
                    /\ last' = [Done("swap", "ok") EXCEPT
                                  !.details = [k \in {"row1", "row2"} |->
                                                 IF k = "row1" THEN sched1 ELSE sched2]]
          \/ \* both lookups found the same row
             /\ sched1 = sched2
             /\ LET sw == Swapped(sched1, sched2)
                    out == (schedule (-) SetToBag({sched1})) (+) SetToBag({sw[1]})
                IN  /\ edits < MaxEdits
                    /\ edits' = edits + 1
                    /\ schedule' = out
                    /\ last' = [Done("swap", "ok") EXCEPT
                                  !.details = [k \in {"row1", "row2"} |-> sched1]]

(***************************************************************************)
(* The clock: date.today() a week later.                                   *)
(***************************************************************************)
NextWeek ==
  /\ today + 7 < YearDays
  /\ today' = today + 7
  /\ last' = Done("next_week", "ok")
  /\ UNCHANGED <<departments, employees, nextEmpId, holidays, schedule, jan1wd, edits>>

(***************************************************************************)
(* Stores the handlers start from: departments and staff already entered   *)
(* through /departments and /employees, no schedule, no holiday.           *)
(***************************************************************************)
Emp(i, n, dn, g) == [id |-> i, name |-> n, dept |-> dn, group |-> g]

\* a default-rotation department; the year starts on a Sunday
StoreCsr ==
  [departments |-> {DEPT_CSR},
   employees |-> {Emp(1, "Ann", DEPT_CSR, NoGroup), Emp(2, "Bob", DEPT_CSR, NoGroup)},
   jan1wd |-> 6]

\* the paired-substitute department
StoreShop ==
  [departments |-> {DEPT_SHOP},
   employees |-> {Emp(1, "Edwin", DEPT_SHOP, NoGroup), Emp(2, "Tommy", DEPT_SHOP, NoGroup)},
   jan1wd |-> 6]

\* the group-rostered department
StoreSpecOps ==
  [departments |-> {DEPT_SPEC_OPS},
   employees |-> {Emp(1, "Ann", DEPT_SPEC_OPS, 1), Emp(2, "Bob", DEPT_SPEC_OPS, 2)},
   jan1wd |-> 6]

\* the cadence departments; the year starts on a Saturday
StoreAuto ==
  [departments |-> {DEPT_AUTO},
   employees |-> {Emp(1, "Ann", DEPT_AUTO, NoGroup), Emp(2, "Bob", DEPT_AUTO, NoGroup)},
   jan1wd |-> SATURDAY]

\* the alternating department in a year that starts on a Sunday
StoreAutoSunday ==
  [departments |-> {DEPT_AUTO},
   employees |-> {Emp(1, "Ann", DEPT_AUTO, NoGroup)},
   jan1wd |-> 6]

StoreDal ==
  [departments |-> {DEPT_DAL},
   employees |-> {Emp(1, "Ann", DEPT_DAL, NoGroup)},
   jan1wd |-> SATURDAY]

StoreColden ==
  [departments |-> {DEPT_COLDEN},
   employees |-> {Emp(1, "Ann", DEPT_COLDEN, NoGroup), Emp(2, "Bob", DEPT_COLDEN, NoGroup)},
   jan1wd |-> SATURDAY]

\* the fixed-member department, with and without the fixed member
StoreCar ==
  [departments |-> {DEPT_CAR},
   employees |-> {Emp(1, "Corey", DEPT_CAR, NoGroup), Emp(2, "Ann", DEPT_CAR, NoGroup)},
   jan1wd |-> 6]

StoreCarNoCorey ==
  [departments |-> {DEPT_CAR},
   employees |-> {Emp(1, "Ann", DEPT_CAR, NoGroup), Emp(2, "Bob", DEPT_CAR, NoGroup)},
   jan1wd |-> 6]

\* a default-rotation department next to the alternating department in a year
\* that starts on a Sunday
StoreCsrAuto ==
  [departments |-> {DEPT_CSR, DEPT_AUTO},
   employees |-> {Emp(1, "Ann", DEPT_CSR, NoGroup), Emp(2, "Bob", DEPT_AUTO, NoGroup)},
   jan1wd |-> 6]

\* a default-rotation department in a year that starts on a Saturday
StoreCsrSaturday ==
  [departments |-> {DEPT_CSR},
   employees |-> {Emp(1, "Ann", DEPT_CSR, NoGroup), Emp(2, "Bob", DEPT_CSR, NoGroup)},
   jan1wd |-> SATURDAY]

\* two rotation-drawn departments side by side
StoreCsrShop ==
  [departments |-> {DEPT_CSR, DEPT_SHOP},
   employees |-> {Emp(1, "Ann", DEPT_CSR, NoGroup), Emp(2, "Bob", DEPT_SHOP, NoGroup)},
   jan1wd |-> 6]

InitStore(s) ==
  /\ departments = s.departments
  /\ employees = s.employees
  /\ nextEmpId = Cardinality(s.employees) + 1
  /\ jan1wd = s.jan1wd
  /\ holidays = {}
  /\ schedule = EmptyBag
  /\ today = 0
  /\ edits = 0
  /\ last = Done("init", "ok")

Stores == {StoreCsr, StoreShop, StoreSpecOps, StoreAutoSunday}

Init == \E s \in Stores : InitStore(s)

CadenceStores == {StoreAuto, StoreAutoSunday, StoreDal, StoreColden}

InitCadence == \E s \in CadenceStores : InitStore(s)

CarStores == {StoreCar, StoreCarNoCorey}

InitCar == \E s \in CarStores : InitStore(s)

RotationStores == {StoreCsrSaturday}

InitRotation == \E s \in RotationStores : InitStore(s)

TwoDepartmentStores == {StoreCsrShop, StoreCsrAuto}

InitTwoDepartments == \E s \in TwoDepartmentStores : InitStore(s)

FailingStores == {StoreCsrAuto, StoreAutoSunday}

InitFailing == \E s \in FailingStores : InitStore(s)

\* the names and group numbers requests carry
NewNames == {"Dan"}
Groups == {NoGroup, 1}
KnownNames == {e.name : e \in employees} \cup NewNames

Next ==
  \/ generate_schedule
  \/ \E n \in NewNames, dn \in departments, g \in Groups :
       (dn = DEPT_SPEC_OPS \/ g = NoGroup) /\ add_employee(n, dn, g)
  \/ \E n \in KnownNames : remove_employee_by_name(n)
  \/ \E d \in Saturdays : add_holiday(d)
  \/ delete_schedule_all
  \/ \E d \in Saturdays : delete_schedule_date(d)
  \/ \E d \in Saturdays, dn \in departments, n \in KnownNames : import_schedule(d, dn, n)
  \/ \E d1 \in Saturdays, d2 \in Saturdays : swap_shift(d1, d2)
  \/ NextWeek

Spec == Init /\ [][Next]_vars

\* the same requests against the stores of the cadence departments
SpecCadence == InitCadence /\ [][Next]_vars

\* the same requests against the stores of the fixed-member department
SpecCar == InitCar /\ [][Next]_vars

\* the same requests against a default-rotation department with three
\* Saturdays in the year
SpecRotation == InitRotation /\ [][Next]_vars

\* the same requests against stores that hold two departments
SpecTwoDepartments == InitTwoDepartments /\ [][Next]_vars

\* the same requests against stores in which a repair run can raise
SpecFailing == InitFailing /\ [][Next]_vars

(***************************************************************************)
(* The calendar helpers on their own: any weekday for January 1, any       *)
(* reference date of the year.                                             *)
(***************************************************************************)
InitCalendar ==
  /\ jan1wd \in 0..6
  /\ today \in 0..(YearDays - 1)
  /\ departments = {}
  /\ employees = {}
  /\ nextEmpId = 1
  /\ holidays = {}
  /\ schedule = EmptyBag
  /\ edits = 0
  /\ last = Done("init", "ok")

\* coming_sat = coming_saturday(today)
CallComingSaturday ==
  /\ last.op = "init"
  /\ last' = [Done("coming_saturday", "ok") EXCEPT
                !.details = [from_day |-> today, result |-> coming_saturday(today)]]
  /\ UNCHANGED <<departments, employees, nextEmpId, holidays, schedule, today,
                 jan1wd, edits>>

NextCalendar == CallComingSaturday

SpecCalendar == InitCalendar /\ [][NextCalendar]_vars

(***************************************************************************)
(* Vocabulary of the properties.                                           *)
(***************************************************************************)
\* zero-based position of a Saturday among the year's Saturdays, the first
\* being the first Saturday on or after January 1
WeekIndexWithinYear(d) == (d - coming_saturday(0)) \div 7

\* the target dates of a repair run today
TargetDateSet ==
  {d \in Saturdays : d >= coming_saturday(today) /\ d \notin holidays}

RowsAt(B, dn, d) == {r \in DOMAIN B : r.dept = dn /\ r.date = d}

\* the last request was a repair run that wrote to the table
Repaired == last.op = "generate" /\ last.outcome = "regenerated"

\* the dates the last repair run cleaned and refilled for a department
RepairedDates(dn) ==
  IF Repaired /\ dn \in DOMAIN last.details THEN Range(last.details[dn]) ELSE {}

\* the employees the last repair run assigned on a date it refilled
Generated(dn, d) == {r.emp : r \in {x \in RowsAt(schedule, dn, d) : ~ x.override}}

(***************************************************************************)
(* C1. Override preservation: every row with override = TRUE that exists   *)
(* before a repair run exists after it, with the same date, department,    *)
(* employee and flag, whatever requests came before.                       *)
(***************************************************************************)
C1_OverridePreserved ==
  [][last'.op = "generate" =>
       \A r \in DOMAIN schedule :
         r.override => CopiesIn(r, schedule') >= CopiesIn(r, schedule)]_vars

\* a repair run cleaned and refilled a date that carries an override row
C1_Witness ==
  \E r \in Rows : r.override /\ r.date \in RepairedDates(r.dept)

(***************************************************************************)
(* C2. Idempotence: a repair run that directly follows a repair run (same  *)
(* today, nothing in between) deletes nothing, inserts nothing and leaves  *)
(* the table as it was.                                                    *)
(***************************************************************************)
C2_RepairIdempotent ==
  [][(last.op = "generate" /\ last'.op = "generate") =>
       /\ schedule' = schedule
       /\ last'.deleted = 0
       /\ last'.inserted = 0]_vars

(***************************************************************************)
(* C3. No double-booking: after a repair run every department outside the  *)
(* multi-slot set holds at most one row per date.                          *)
(***************************************************************************)
C3_NoDoubleBooking ==
  (last.op = "generate" /\ last.outcome \in {"regenerated", "complete"}) =>
    \A dn \in departments \ multi_allowed : \A d \in Saturdays :
      CountRows(schedule, RowsAt(schedule, dn, d)) <= 1

(***************************************************************************)
(* C4. Group-rostered coverage: after a repair run the employees assigned  *)
(* to Spec Ops on a target date are exactly those of group                 *)
(* (weekIndexWithinYear(date) mod 4) + 1.                                  *)
(***************************************************************************)
C4_GroupCoverage ==
  (last.op = "generate" /\ last.outcome \in {"regenerated", "complete"}
     /\ DEPT_SPEC_OPS \in departments) =>
    \A d \in TargetDateSet :
      {r.emp : r \in RowsAt(schedule, DEPT_SPEC_OPS, d)}
        = {e.id : e \in {x \in DeptEmployees(DEPT_SPEC_OPS) :
                           x.group = (WeekIndexWithinYear(d) % 4) + 1}}

(***************************************************************************)
(* C5. Cadence determinism: for Auto, DAL and COL/DEN a repair run fills   *)
(* a Saturday exactly when its year-wide week index modulo the cycle       *)
(* length is an on position, whatever dates are holidays and whatever      *)
(* subset of the dates the run repairs.                                    *)
(***************************************************************************)
CycleLength(dn) == IF dn = DEPT_AUTO THEN 2 ELSE 4

OnPositions(dn) ==
  IF dn = DEPT_AUTO THEN {0} ELSE IF dn = DEPT_DAL THEN {0, 1} ELSE {0, 1, 2}

AutoExpected(d) ==
  LET w == WeekIndexWithinYear(d)
      emps == dept_employees(DEPT_AUTO)
  IN  IF w % 2 = 0 THEN {emps[((w \div 2) % Len(emps)) + 1].id} ELSE {}

\* the dates a run had to fill for Auto; a failed run leaves the table as it
\* was, so they are the dates still found missing
AutoDates ==
  IF last.outcome = "error"
  THEN LET cs == coming_saturday(today)
           mbd == missing_by_dept(TargetSaturdays(cs, last_saturday_of_year), cs)
       IN  IF DEPT_AUTO \in DOMAIN mbd THEN Range(mbd[DEPT_AUTO]) ELSE {}
  ELSE RepairedDates(DEPT_AUTO)

C6_AutoAlternates ==
  (last.op = "generate" /\ DeptEmployees(DEPT_AUTO) # {}) =>
    \A d \in AutoDates : Generated(DEPT_AUTO, d) = AutoExpected(d)

(***************************************************************************)
(* C7. Holiday exclusion: add_holiday on date D deletes every row dated D, *)
(* override or not, and no later repair run creates a row on a recorded    *)
(* holiday.                                                                *)
(***************************************************************************)
C7_HolidayExcluded ==
  [][/\ last'.op = "add_holiday" =>
          /\ last'.details.date \in holidays'
          /\ \A r \in DOMAIN schedule' : r.date # last'.details.date
     /\ last'.op = "generate" =>
          \A r \in DOMAIN schedule' :
            r.date \in holidays => CopiesIn(r, schedule') <= CopiesIn(r, schedule)]_vars

\* a repair run wrote rows while a recorded holiday lies among the remaining
\* Saturdays of the year
C7_Witness ==
  /\ Repaired
  /\ last.inserted > 0
  /\ \E h \in holidays : h >= coming_saturday(today) /\ h <= last_saturday_of_year

(***************************************************************************)
(* C8. Employee removal cascade: removing an employee deletes all rows of  *)
(* that employee, past and future, override or not, and no other row; so   *)
(* every row references an employee that exists.                           *)
(***************************************************************************)
C8_RemovalCascade ==
  [][/\ \A r \in DOMAIN schedule' : \E e \in employees' : e.id = r.emp
     /\ (last'.op = "remove_employee" /\ last'.outcome = "ok") =>
          \E gone \in employees :
            /\ employees' = employees \ {gone}
            /\ \A r \in DOMAIN schedule \cup DOMAIN schedule' :
                 CopiesIn(r, schedule') =
                   IF r.emp = gone.id THEN 0 ELSE CopiesIn(r, schedule)]_vars

\* an employee with an override row and a past row was removed while the
\* table holds rows of another employee
C8_Witness ==
  /\ last.op = "remove_employee"
  /\ last.outcome = "ok"
  /\ \E r \in last.details.rows : r.override
  /\ \E r \in last.details.rows : r.date < coming_saturday(today)
  /\ Rows # {}

(***************************************************************************)
(* C9. Swap: a successful swap_shift leaves the employee of the row found  *)
(* on the first date in the row found on the second date and the other way *)
(* round, marks both rows override = TRUE and changes no other row; a swap *)
(* that reports not-found changes nothing.                                 *)
(***************************************************************************)
C9_Swap ==
  [][/\ (last'.op = "swap" /\ last'.outcome = "ok") =>
          LET r1 == last'.details.row1
              r2 == last'.details.row2
              n1 == [date |-> r1.date, dept |-> r1.dept, emp |-> r2.emp, override |-> TRUE]
              n2 == [date |-> r2.date, dept |-> r2.dept, emp |-> r1.emp, override |-> TRUE]
              two == ((schedule (-) SetToBag({r1})) (-) SetToBag({r2}))
                       (+) SetToBag({n1}) (+) SetToBag({n2})
              one == (schedule (-) SetToBag({r1})) (+) SetToBag({n1})
          IN  /\ r1 \in DOMAIN schedule /\ r2 \in DOMAIN schedule
              /\ \/ (r1 # r2 \/ CopiesIn(r1, schedule) >= 2) /\ schedule' = two
                 \/ r1 = r2 /\ schedule' = one
     /\ (last'.op = "swap" /\ last'.outcome = "not_found") =>
          schedule' = schedule]_vars

\* two employees exchanged their rows of two different dates
C9_Witness ==
  /\ last.op = "swap"
  /\ last.outcome = "ok"
  /\ last.details.row1.emp # last.details.row2.emp
  /\ last.details.row1.date # last.details.row2.date

(***************************************************************************)
(* C10. Past rows are untouched by repair: the rows dated before the       *)
(* coming Saturday are the same before and after a repair run.             *)
(***************************************************************************)
C10_PastUntouched ==
  [][last'.op = "generate" =>
       \A r \in DOMAIN schedule \cup DOMAIN schedule' :
         r.date < coming_saturday(today) =>
           CopiesIn(r, schedule') = CopiesIn(r, schedule)]_vars

\* a repair run wrote rows while the table holds non-override rows of the past
C10_Witness ==
  /\ Repaired
  /\ last.inserted > 0
  /\ \E r \in Rows : r.date < coming_saturday(today) /\ ~ r.override

C12_ComingSaturday ==
  last.op = "coming_saturday" =>
    LET T == last.details.from_day
        r == last.details.result
    IN  /\ Weekday(r) = SATURDAY
        /\ T <= r /\ r < T + 7
        /\ \A d \in T..(r - 1) : Weekday(d) # SATURDAY
        /\ Weekday(T) = SATURDAY => r = T

\* the function was applied to a Saturday and to a Sunday in a year that
\* starts on a Monday
C12_Witness ==
  /\ last.op = "coming_saturday"
  /\ jan1wd = 0
  /\ last.details.from_day \in {5, 6}
  /\ last.details.result \in {5, 12}

(***************************************************************************)
(* C13. Week index is defined for every target date: whatever weekday      *)
(* January 1 falls on, the cadence computation of Auto, DAL and COL/DEN    *)
(* obtains for every target Saturday its zero-based position among the     *)
(* year's Saturdays, and the repair run completes without an error.        *)
(***************************************************************************)
C13_WeekIndexDefined ==
  last.op = "generate" =>
    /\ last.outcome # "error"
    /\ \A dn \in {DEPT_AUTO, DEPT_DAL, DEPT_COLDEN} \cap departments :
         DeptEmployees(dn) # {} =>
           \A d \in TargetDateSet : week_index(d) = WeekIndexWithinYear(d)

(***************************************************************************)
(* C14. Removed employees are replaced: when an employee with future       *)
(* non-override rows is removed and a repair run follows, every            *)
(* (department, date) of those rows ends with as many employees as the     *)
(* department's rule assigns to a date: the fixed member and one rotated   *)
(* employee in CAR, one employee in a rotation-drawn department.  CAR is   *)
(* taken with its fixed member present (C15 covers the other case).        *)
(***************************************************************************)
RequiredCount(dn) ==
  IF dn = DEPT_CAR
  THEN 1 + (IF \E e \in DeptEmployees(DEPT_CAR) : ~ IsCorey(e.name) THEN 1 ELSE 0)
  ELSE IF DeptEmployees(dn) # {} THEN 1 ELSE 0

C14_RemovedReplaced ==
  [][(last.op = "remove_employee" /\ last.outcome = "ok" /\ last'.op = "generate") =>
       \A r \in last.details.rows :
         (/\ ~ r.override
          /\ r.date \in TargetDateSet
          /\ r.dept \in {DEPT_CSR, DEPT_SHOP, DEPT_CAR}
          /\ r.dept = DEPT_CAR => \E e \in employees : IsCorey(e.name))
           => Cardinality({x.emp : x \in RowsAt(schedule', r.dept, r.date)})
                >= RequiredCount(r.dept)]_vars

(***************************************************************************)
(* C15. Missing fixed member: when CAR has employees but none is the fixed *)
(* member, a repair run does not fail and every target date still gets the *)
(* rotated slot, drawn from the department's employees.                    *)
(***************************************************************************)
C15_MissingFixedMember ==
  (/\ last.op = "generate"
   /\ DEPT_CAR \in departments
   /\ DeptEmployees(DEPT_CAR) # {}
   /\ ~ \E e \in DeptEmployees(DEPT_CAR) : IsCorey(e.name)) =>
    /\ last.outcome # "error"
    /\ \A d \in TargetDateSet :
         \E r \in RowsAt(schedule, DEPT_CAR, d) :
           r.emp \in {e.id : e \in DeptEmployees(DEPT_CAR)}

(***************************************************************************)
(* C16. Fixed-member coverage: when CAR has the fixed member and at least  *)
(* one other employee, every date a repair run fills for CAR gets exactly  *)
(* two generated rows, the fixed member's and one of another employee, and *)
(* over consecutive filled dates the other employees follow each other in  *)
(* ascending-id cyclic order.                                              *)
(***************************************************************************)
CarFixed == {e.id : e \in {x \in DeptEmployees(DEPT_CAR) : IsCorey(x.name)}}

CarOthers == {e.id : e \in {x \in DeptEmployees(DEPT_CAR) : ~ IsCorey(x.name)}}

\* the id after i in ascending cyclic order of the id set S
NextInCycle(S, i) ==
  LET above == {x \in S : x > i}
      from == IF above # {} THEN above ELSE S
  IN  CHOOSE x \in from : \A y \in from : x <= y

C16_FixedMemberCoverage ==
  (Repaired /\ DEPT_CAR \in DOMAIN last.details /\ CarFixed # {} /\ CarOthers # {}) =>
    LET td == last.details[DEPT_CAR]
        rotated(i) == Generated(DEPT_CAR, td[i]) \ CarFixed
    IN  /\ \A i \in DOMAIN td :
             /\ CarFixed \subseteq Generated(DEPT_CAR, td[i])
             /\ Cardinality(rotated(i)) = 1
             /\ rotated(i) \subseteq CarOthers
             /\ CountRows(schedule, {r \in RowsAt(schedule, DEPT_CAR, td[i]) :
                                       ~ r.override}) = 2
        /\ \A i \in 1..(Len(td) - 1) :
             \A a \in rotated(i) : rotated(i + 1) = {NextInCycle(CarOthers, a)}

\* a run filled two dates with two other employees taking turns
C16_Witness ==
  /\ Repaired
  /\ DEPT_CAR \in DOMAIN last.details
  /\ CarFixed # {}
  /\ Cardinality(CarOthers) = 2
  /\ LET td == last.details[DEPT_CAR]
     IN  /\ Len(td) = 2
         /\ \E a \in Generated(DEPT_CAR, td[1]) \ CarFixed :
              \A b \in Generated(DEPT_CAR, td[2]) \ CarFixed : b > a

(***************************************************************************)
(* C17. Resume from last worked: in a rotation-drawn department, when the  *)
(* most recent date before the coming Saturday that has rows of the        *)
(* department has exactly one row and its employee E is still in the       *)
(* rotation, the first employee a repair run draws is the one after E in   *)
(* ascending-id cyclic order; otherwise it is the employee of lowest id.   *)
(***************************************************************************)
RotationIds(dn) == {e.id : e \in DeptEmployees(dn)}

PastRows(dn) == {r \in Rows : r.dept = dn /\ r.date < coming_saturday(today)}

LastWorkedRows(dn) ==
  {r \in PastRows(dn) : \A x \in PastRows(dn) : x.date <= r.date}

\* the employee drawn for a date: in Shop the row of Tommy that accompanies
\* Edwin's is not a draw
Drawn(dn, d) ==
  LET g == Generated(dn, d)
  IN  IF dn = DEPT_SHOP /\ \E e \in DeptEmployees(dn) : IsEdwin(e.name) /\ e.id \in g
      THEN {e.id : e \in {x \in DeptEmployees(dn) : IsEdwin(x.name) /\ x.id \in g}}
      ELSE g

ExpectedFirst(dn) ==
  LET lw == LastWorkedRows(dn)
      R  == RotationIds(dn)
  IN  IF CountRows(schedule, lw) = 1 /\ \A r \in lw : r.emp \in R
      THEN {NextInCycle(R, r.emp) : r \in lw}
      ELSE {CHOOSE x \in R : \A y \in R : x <= y}

C17_ResumeFromLastWorked ==
  \A dn \in {DEPT_CSR, DEPT_SHOP} :
    (/\ Repaired
     /\ dn \in DOMAIN last.details
     /\ last.details[dn] # <<>>
     /\ DeptEmployees(dn) # {}) =>
      Drawn(dn, last.details[dn][1]) = ExpectedFirst(dn)

\* a run resumed after the last worked employee, who is not the one of
\* highest id
C17_Witness ==
  \E dn \in {DEPT_CSR, DEPT_SHOP} :
    /\ Repaired
    /\ dn \in DOMAIN last.details
    /\ last.details[dn] # <<>>
    /\ CountRows(schedule, LastWorkedRows(dn)) = 1
    /\ \E r \in LastWorkedRows(dn) : \E x \in RotationIds(dn) : x > r.emp
    /\ \A x \in Drawn(dn, last.details[dn][1]) : \E y \in RotationIds(dn) : y < x

(***************************************************************************)
(* C18. Paired substitute is dependent only: on every date a repair run    *)
(* fills for Shop, Tommy is assigned if and only if Edwin is the employee  *)
(* drawn for that date.                                                    *)
(***************************************************************************)
C18_PairedSubstituteDependent ==
  (Repaired /\ DEPT_SHOP \in DOMAIN last.details) =>
    \A d \in RepairedDates(DEPT_SHOP) :
      \A ed \in {e \in DeptEmployees(DEPT_SHOP) : IsEdwin(e.name)} :
        \A tm \in {e \in DeptEmployees(DEPT_SHOP) : IsTommy(e.name)} :
          (tm.id \in Generated(DEPT_SHOP, d)) <=> (ed.id \in Generated(DEPT_SHOP, d))

(***************************************************************************)
(* C19. OFF cells are never flagged as missing: a Saturday on which the    *)
(* cadence of Auto, DAL or COL/DEN is off holds no generated row after a   *)
(* repair run and is not among the dates the run reports for the           *)
(* department.                                                             *)
(***************************************************************************)
IsOff(dn, d) == (WeekIndexWithinYear(d) % CycleLength(dn)) \notin OnPositions(dn)

C19_OffNeverMissing ==
  Repaired =>
    \A dn \in {DEPT_AUTO, DEPT_DAL, DEPT_COLDEN} \cap departments :
      /\ \A d \in TargetDateSet : IsOff(dn, d) => Generated(dn, d) = {}
      /\ \A d \in RepairedDates(dn) : ~ IsOff(dn, d)

(***************************************************************************)
(* C20. No duplicate assignment: whatever requests were made, no two rows  *)
(* share the same date, department and employee.                           *)
(***************************************************************************)
C20_NoDuplicateAssignment ==
  \A r \in Rows :
    CountRows(schedule, {x \in Rows : x.date = r.date /\ x.dept = r.dept
                                        /\ x.emp = r.emp}) = 1

(***************************************************************************)
(* C21. New employees join at the tail: when an employee is added to a     *)
(* rotation-drawn department and a repair run follows, the run draws the   *)
(* new employee only after every employee who was already in the rotation  *)
(* has been drawn once.                                                    *)
(***************************************************************************)
\* the employee drawn for a date, read from the table B
DrawnIn(B, dn, d) ==
  LET g == {r.emp : r \in {x \in RowsAt(B, dn, d) : ~ x.override}}
  IN  IF dn = DEPT_SHOP /\ \E e \in DeptEmployees(dn) : IsEdwin(e.name) /\ e.id \in g
      THEN {e.id : e \in {x \in DeptEmployees(dn) : IsEdwin(x.name) /\ x.id \in g}}
      ELSE g

C21_NewEmployeeAtTail ==
  [][(last.op = "add_employee" /\ last'.op = "generate"
        /\ last'.outcome = "regenerated") =>
       \A new \in {e \in employees : e.id = nextEmpId - 1} :
         (new.dept \in {DEPT_CSR, DEPT_SHOP} /\ new.dept \in DOMAIN last'.details) =>
           LET td == last'.details[new.dept]
               drawn(i) == DrawnIn(schedule', new.dept, td[i])
           IN  \A i \in DOMAIN td :
                 new.id \in drawn(i) =>
                   \A old \in RotationIds(new.dept) \ {new.id} :
                     \E j \in 1..(i - 1) : old \in drawn(j)]_vars

(***************************************************************************)
(* C22. Import rows are overrides: every row import_schedule writes has    *)
(* override = TRUE, so a repair run that follows neither deletes nor       *)
(* replaces it.                                                            *)
(***************************************************************************)
C22_ImportRowsAreOverrides ==
  [][/\ (last'.op = "import" /\ last'.outcome = "ok") =>
          \A r \in DOMAIN schedule' :
            CopiesIn(r, schedule') > CopiesIn(r, schedule) => r.override
     /\ (last.op = "import" /\ last.outcome = "ok" /\ last'.op = "generate") =>
          \A r \in DOMAIN schedule :
            CopiesIn(r, schedule') >= CopiesIn(r, schedule)]_vars

(***************************************************************************)
(* C23. Round-robin evenness: in a default-rule department with N >= 1     *)
(* employees and no override rows on the target dates, one repair run      *)
(* writes one row per target date, names the employees in ascending-id     *)
(* cyclic order over consecutive target dates, and gives any two employees *)
(* numbers of dates that differ by at most one.                            *)
(***************************************************************************)
\* the number of target dates the last run gave to employee id
TurnsOf(dn, id) ==
  Cardinality({i \in DOMAIN last.details[dn] :
                 id \in Generated(dn, last.details[dn][i])})

C23_RoundRobinEvenness ==
  (/\ Repaired
   /\ DEPT_CSR \in DOMAIN last.details
   /\ DeptEmployees(DEPT_CSR) # {}
   /\ \A d \in RepairedDates(DEPT_CSR) :
        \A r \in RowsAt(schedule, DEPT_CSR, d) : ~ r.override) =>
    LET td == last.details[DEPT_CSR]
        R  == RotationIds(DEPT_CSR)
    IN  /\ \A i \in DOMAIN td :
             /\ Cardinality(Generated(DEPT_CSR, td[i])) = 1
             /\ Generated(DEPT_CSR, td[i]) \subseteq R
             /\ CountRows(schedule, RowsAt(schedule, DEPT_CSR, td[i])) = 1
        /\ \A i \in 1..(Len(td) - 1) :
             \A a \in Generated(DEPT_CSR, td[i]) :
               Generated(DEPT_CSR, td[i + 1]) = {NextInCycle(R, a)}
        /\ \A a \in R : \A b \in R :
             TurnsOf(DEPT_CSR, a) - TurnsOf(DEPT_CSR, b) \in {-1, 0, 1}

\* a run filled three dates from two employees: the first one came round again
C23_Witness ==
  /\ Repaired
  /\ DEPT_CSR \in DOMAIN last.details
  /\ Len(last.details[DEPT_CSR]) = 3
  /\ Cardinality(RotationIds(DEPT_CSR)) = 2
  /\ \A r \in Rows : ~ r.override
  /\ \E a \in RotationIds(DEPT_CSR) : TurnsOf(DEPT_CSR, a) = 2

(***************************************************************************)
(* C24. Department consistency of rows: whatever requests were made, the   *)
(* employee of every row is a member of the row's department.              *)
(***************************************************************************)
C24_RowsWithinDepartment ==
  \A r \in Rows : \E e \in employees : e.id = r.emp /\ e.dept = r.dept

====
